---- MODULE Spec2Model ----
(***************************************************************************)
(* A model of ZeroTier::SocketTap (src/src/SocketTap.cpp), built with      *)
(* STACK_PICO: the address list, the multicast-group scan, the connection  *)
(* table with its deferred reclamation, the socket API and the teardown of *)
(* the background thread.                                                  *)
(***************************************************************************)
EXTENDS Integers, Sequences, FiniteSets, TLC

(***************************************************************************)
(* Bounds of the model.                                                    *)
(***************************************************************************)
\* InetAddress values are 1..NumAddrs, ordered as the integers are.
NumAddrs == 4
\* Longest _ips the model lets addIp build.
MaxIps == 4
\* The same for the runs with concurrent callers, and the addresses they use.
MaxConcIps == 2
NumConcAddrs == 2
\* Connection objects ever created on the device.
MaxConns == 2
\* Connections created while the socket API is exercised.
MaxApiConns == 1
\* The last second of the clock.
MaxTime == 3
\* Longest payload behind the Ethernet header of a written frame.
MaxPayload == 1
\* Devices ever constructed in the process.
MaxTaps == 3

Addrs == 1..NumAddrs

NULL == 0

VARIABLES
    picostack,          \* the global backend pointer: TRUE when non-null
    _ips,               \* std::vector<InetAddress> _ips
    _multicastGroups,   \* std::vector<MulticastGroup> _multicastGroups
    cleanScans,         \* scans since _ips last changed, counted up to 2
    call                \* the entry point that returned last: its name, its
                        \* arguments, what it read, what it returned

VARIABLES
    pc,                 \* where each caller of the address operations stands
    _ips_m,             \* Mutex _ips_m: "free" or the caller holding it
    _multicastGroups_m, \* Mutex _multicastGroups_m, likewise
    argIp,              \* the ip argument of the addIp or removeIp under way
    base,               \* _ips when the addIp under way was called
    allIps,             \* scanMulticastGroups' local allIps
    seen                \* what the reader's last ips() returned, with the whole
                        \* lists around the moment of its copy

VARIABLES
    _Connections,         \* std::vector<Connection*> _Connections, as Connection ids
    conn,                 \* the Connection object behind each id
    now,                  \* what std::time(nullptr) returns
    last_housekeeping_ts, \* std::time_t last_housekeeping_ts
    hk_ts_set,            \* last_housekeeping_ts has been assigned
    crashed,              \* the process has stopped on an invalid access
    released              \* how often each Connection object has been deleted

VARIABLES
    _run,                 \* bool _run
    whackPending,         \* _phy.whack() has been called and no wait has taken it
    threadPc,             \* where the background thread stands
    dtorPc,               \* where ~SocketTap stands, "idle" before it is called
    dtorI,                \* the i of the destructor's loop, counted from 1
    midLoop               \* the thread was inside the run loop when ~SocketTap began

VARIABLES
    devno,                \* static int SocketTap::devno
    taps,                 \* the devices constructed: ifindex and the number in _dev
    ctorPc,               \* where each thread constructing a device stands
    ctorIfindex,          \* the ifindex the constructor under way has assigned
    ctorTmp               \* the value the constructor under way read for devno++

VARIABLES
    _tcpconns_m,          \* Mutex _tcpconns_m: "free" or the thread holding it
    apiPc,                \* the entry point each calling thread is inside, or "idle"
    apiConn,              \* the Connection that entry point was called on
    hkI,                  \* the i of the sweep under way, counted from 1
    hkTs                  \* the current_ts of the sweep under way

addrVars == <<picostack, _ips, _multicastGroups, cleanScans>>

concVars == <<pc, _ips_m, _multicastGroups_m, argIp, base, allIps, seen>>

connVars ==
    <<_Connections, conn, now, last_housekeeping_ts, hk_ts_set, crashed, released>>

dtorVars == <<_run, whackPending, threadPc, dtorPc, dtorI, midLoop>>

createVars == <<devno, taps, ctorPc, ctorIfindex, ctorTmp>>

lockVars == <<_tcpconns_m, apiPc, apiConn, hkI, hkTs>>

\* What the operations of one device, each called alone, leave as it is.
lifeVars == <<createVars, lockVars>>

\* Everything the address operations, called one at a time, leave alone.
notAddr == <<concVars, connVars, dtorVars, lifeVars>>

vars == <<addrVars, call, concVars, connVars, dtorVars, lifeVars>>

\* call before any entry point has returned.
NoCall == [op |-> "none"]

(***************************************************************************)
(* Sequences as the standard library treats them.                          *)
(***************************************************************************)
Range(s) == {s[i] : i \in 1..Len(s)}

IsSorted(s) == \A i \in 1..(Len(s) - 1) : s[i] <= s[i + 1]

NoDuplicates(s) == \A i, j \in 1..Len(s) : i # j => s[i] # s[j]

\* Insert x into the sorted sequence s, after the elements not greater than it.
RECURSIVE InsertSorted(_, _)
InsertSorted(s, x) ==
    IF s = <<>> THEN <<x>>
    ELSE IF x < Head(s) THEN <<x>> \o s
    ELSE <<Head(s)>> \o InsertSorted(Tail(s), x)

\* std::sort(v.begin(), v.end()): the elements of v in ascending order.
RECURSIVE StdSort(_)
StdSort(v) ==
    IF v = <<>> THEN <<>>
    ELSE InsertSorted(StdSort(SubSeq(v, 1, Len(v) - 1)), v[Len(v)])

\* std::find(v.begin(), v.end(), x): the first index holding x, Len(v)+1 for end().
StdFind(v, x) ==
    IF \E i \in 1..Len(v) : v[i] = x
    THEN CHOOSE i \in 1..Len(v) : v[i] = x /\ \A j \in 1..(i - 1) : v[j] # x
    ELSE Len(v) + 1

\* v.erase(v.begin() + (i - 1)): v without its i-th element.
Erase(v, i) == SubSeq(v, 1, i - 1) \o SubSeq(v, i + 1, Len(v))

\* The compaction loop of std::unique over a trivially copyable element type:
\* dest is the last kept position, i the position read next.
RECURSIVE UniqueLoop(_, _, _)
UniqueLoop(v, dest, i) ==
    IF i > Len(v) THEN v
    ELSE IF v[dest] # v[i]
         THEN UniqueLoop([v EXCEPT ![dest + 1] = v[i]], dest + 1, i + 1)
         ELSE UniqueLoop(v, dest, i + 1)

\* std::unique(v.begin(), v.end()) with its returned iterator discarded: the
\* vector keeps its length, the kept elements are moved to the front and the
\* positions behind them keep what they held.
StdUniqueInPlace(v) == IF Len(v) < 2 THEN v ELSE UniqueLoop(v, 1, 2)

\* std::lower_bound's halving loop over positions first..first+len-1.
RECURSIVE LowerBound(_, _, _, _)
LowerBound(v, x, first, len) ==
    IF len <= 0 THEN first
    ELSE LET half == len \div 2
             mid  == first + half
         IN  IF v[mid] < x
             THEN LowerBound(v, x, mid + 1, len - half - 1)
             ELSE LowerBound(v, x, first, half)

\* std::binary_search(v.begin(), v.end(), x).
BinarySearch(v, x) ==
    LET i == LowerBound(v, x, 1, Len(v))
    IN  i <= Len(v) /\ ~(x < v[i])

\* The loop "for m in v: if (!std::binary_search(in, m)) out.push_back(m)":
\* what it appends to an empty out.
RECURSIVE NotFoundIn(_, _)
NotFoundIn(v, in) ==
    IF v = <<>> THEN <<>>
    ELSE (IF ~BinarySearch(in, Head(v)) THEN <<Head(v)>> ELSE <<>>)
         \o NotFoundIn(Tail(v), in)

(***************************************************************************)
(* Multicast groups.                                                       *)
(***************************************************************************)
\* Addresses whose low-order part agrees share one address-resolution group.
GroupMod == 3

\* MulticastGroup::deriveMulticastGroupForAddressResolution(ip).
DeriveGroup(ip) == (ip % GroupMod) + 1

\* The loop that fills newGroups, in the order of the snapshot of _ips.
DeriveAll(snapshot) == [i \in 1..Len(snapshot) |-> DeriveGroup(snapshot[i])]

(***************************************************************************)
(* Addresses: addIp, removeIp, ips.                                        *)
(***************************************************************************)
\* registerIpWithStack(ip), given what pico_init_interface returns when called:
\* the call's result is dropped and the function answers for the pointer alone.
registerIpWithStack(stack, initResult) == IF stack THEN TRUE ELSE FALSE

\* The body of addIp once registerIpWithStack has answered.
AddIpResult(ips, ip, registered) ==
    IF registered THEN StdSort(Append(ips, ip)) ELSE ips

\* addIp(ip): pico_init_interface's answer is the backend's, any of the two.
addIp(ip) ==
    /\ Len(_ips) < MaxIps
    /\ \E initResult \in BOOLEAN :
          LET registered == registerIpWithStack(picostack, initResult)
          IN  /\ _ips' = AddIpResult(_ips, ip, registered)
              /\ cleanScans' = IF registered THEN 0 ELSE cleanScans
              /\ call' = [op |-> "addIp", ip |-> ip, ret |-> registered,
                          initOk |-> (picostack /\ initResult), ips |-> _ips]
    /\ UNCHANGED <<picostack, _multicastGroups, notAddr>>

\* removeIp(ip): std::find, then erase of the position found.
removeIp(ip) ==
    LET i == StdFind(_ips, ip)
    IN  /\ IF i = Len(_ips) + 1
           THEN /\ call' = [op |-> "removeIp", ip |-> ip, ret |-> FALSE, ips |-> _ips]
                /\ UNCHANGED <<_ips, cleanScans>>
           ELSE /\ _ips' = Erase(_ips, i)
                /\ call' = [op |-> "removeIp", ip |-> ip, ret |-> TRUE, ips |-> _ips]
                /\ cleanScans' = 0
        /\ UNCHANGED <<picostack, _multicastGroups, notAddr>>

\* ips(): a copy of _ips.
ips ==
    /\ call' = [op |-> "ips", ret |-> _ips]
    /\ UNCHANGED <<addrVars, notAddr>>

(***************************************************************************)
(* scanMulticastGroups.                                                    *)
(***************************************************************************)
\* newGroups after the derive loop, std::sort and std::unique.
NewGroups(snapshot) == StdUniqueInPlace(StdSort(DeriveAll(snapshot)))

\* The first loop: the members of newGroups not found in the tracked vector.
ScanAdded(newGroups, tracked) == NotFoundIn(newGroups, tracked)

\* The second loop run over the wrong vector.
ScanRemovedOfNew(newGroups, tracked) == NotFoundIn(newGroups, tracked)

\* The second loop: the members of the tracked vector not found in newGroups.
ScanRemoved(newGroups, tracked) == NotFoundIn(tracked, newGroups)

\* What _multicastGroups.swap(newGroups) leaves in _multicastGroups.
\* The swap left out.
ScanSwapKeep(newGroups, tracked) == tracked

ScanSwap(newGroups, tracked) == newGroups

\* scanMulticastGroups(added, removed), called with two empty vectors.
scanMulticastGroups ==
    LET snapshot  == _ips
        newGroups == NewGroups(snapshot)
    IN  /\ _multicastGroups' = ScanSwap(newGroups, _multicastGroups)
        /\ cleanScans' = IF cleanScans < 2 THEN cleanScans + 1 ELSE 2
        /\ call' = [op |-> "scanMulticastGroups", ips |-> snapshot,
                    groups |-> _multicastGroups,
                    added |-> ScanAdded(newGroups, _multicastGroups),
                    removed |-> ScanRemoved(newGroups, _multicastGroups)]
        /\ UNCHANGED <<picostack, _ips, notAddr>>

(***************************************************************************)
(* The same operations called from three threads, one step per statement.  *)
(* Mutex::Lock takes its mutex when the mutex is free and gives it back at *)
(* the end of the scope.                                                   *)
(***************************************************************************)
\* The three callers of the concurrent runs: one adds and removes addresses,
\* one scans the multicast groups, one reads ips().
Callers == {"adder", "scanner", "reader"}

Goto(t, label) == pc' = [pc EXCEPT ![t] = label]

\* The whole address lists around the present moment: _ips itself, or, while
\* an addIp has appended and not yet sorted, the list it was called on and
\* the list it returns.
WholeBefore == IF pc["adder"] = "addIp_sort" THEN base ELSE _ips

WholeAfter ==
    IF pc["adder"] = "addIp_sort" THEN StdSort(Append(base, argIp)) ELSE _ips

\* addIp(ip) is called; it takes no lock.
AddIpCall(ip) ==
    /\ pc["adder"] = "idle"
    /\ Len(_ips) < MaxConcIps
    /\ argIp' = ip
    /\ base' = _ips
    /\ UNCHANGED <<connVars, dtorVars, lifeVars>>
    /\ Goto("adder", "addIp_register")
    /\ UNCHANGED <<addrVars, call, seen, _ips_m, _multicastGroups_m, allIps>>

\* if (registerIpWithStack(ip)) ... else return false.
AddIpRegister ==
    /\ pc["adder"] = "addIp_register"
    /\ \E initResult \in BOOLEAN :
          IF registerIpWithStack(picostack, initResult)
          THEN /\ Goto("adder", "addIp_push")
               /\ UNCHANGED <<argIp, base>>
          ELSE /\ Goto("adder", "idle")
               /\ argIp' = NULL
               /\ base' = <<>>
    /\ UNCHANGED <<connVars, dtorVars, lifeVars>>
    /\ UNCHANGED <<addrVars, call, seen, _ips_m, _multicastGroups_m, allIps>>

\* _ips.push_back(ip).
AddIpPushBack ==
    /\ pc["adder"] = "addIp_push"
    /\ _ips' = Append(_ips, argIp)
    /\ UNCHANGED <<connVars, dtorVars, lifeVars>>
    /\ Goto("adder", "addIp_sort")
    /\ UNCHANGED <<picostack, _multicastGroups, cleanScans, call, seen, _ips_m,
                   _multicastGroups_m, argIp, base, allIps>>

\* std::sort(_ips.begin(), _ips.end()); return true.
AddIpSort ==
    /\ pc["adder"] = "addIp_sort"
    /\ _ips' = StdSort(_ips)
    /\ argIp' = NULL
    /\ base' = <<>>
    /\ UNCHANGED <<connVars, dtorVars, lifeVars>>
    /\ Goto("adder", "idle")
    /\ UNCHANGED <<picostack, _multicastGroups, cleanScans, call, seen, _ips_m,
                   _multicastGroups_m, allIps>>

\* removeIp(ip) is called: Mutex::Lock _l(_ips_m).
RemoveIpLock(ip) ==
    /\ pc["adder"] = "idle"
    /\ _ips_m = "free"
    /\ _ips_m' = "adder"
    /\ argIp' = ip
    /\ UNCHANGED <<connVars, dtorVars, lifeVars>>
    /\ Goto("adder", "removeIp_locked")
    /\ UNCHANGED <<addrVars, call, seen, _multicastGroups_m, base, allIps>>

\* The body of removeIp and the release of _ips_m at its return.
RemoveIpBody ==
    /\ pc["adder"] = "removeIp_locked"
    /\ LET i == StdFind(_ips, argIp)
       IN  IF i = Len(_ips) + 1 THEN UNCHANGED _ips ELSE _ips' = Erase(_ips, i)
    /\ _ips_m' = "free"
    /\ argIp' = NULL
    /\ UNCHANGED <<connVars, dtorVars, lifeVars>>
    /\ Goto("adder", "idle")
    /\ UNCHANGED <<picostack, _multicastGroups, cleanScans, call, seen,
                   _multicastGroups_m, base, allIps>>

\* ips() is called by the reader: Mutex::Lock _l(_ips_m).
IpsLock ==
    /\ pc["reader"] = "idle"
    /\ _ips_m = "free"
    /\ _ips_m' = "reader"
    /\ UNCHANGED <<connVars, dtorVars, lifeVars>>
    /\ Goto("reader", "ips_locked")
    /\ UNCHANGED <<addrVars, call, seen, _multicastGroups_m, argIp, base, allIps>>

\* return _ips: the copy, and the release of _ips_m.
IpsCopy ==
    /\ pc["reader"] = "ips_locked"
    /\ seen' = [ret |-> _ips, before |-> WholeBefore, after |-> WholeAfter]
    /\ _ips_m' = "free"
    /\ UNCHANGED <<connVars, dtorVars, lifeVars>>
    /\ Goto("reader", "idle")
    /\ UNCHANGED <<addrVars, call, _multicastGroups_m, argIp, base, allIps>>

\* scanMulticastGroups is called: Mutex::Lock _l(_multicastGroups_m).
ScanLock ==
    /\ pc["scanner"] = "idle"
    /\ _multicastGroups_m = "free"
    /\ _multicastGroups_m' = "scanner"
    /\ UNCHANGED <<connVars, dtorVars, lifeVars>>
    /\ Goto("scanner", "scan_locked")
    /\ UNCHANGED <<addrVars, call, seen, _ips_m, argIp, base, allIps>>

\* allIps(ips()): the lock of ips().
ScanIpsLock ==
    /\ pc["scanner"] = "scan_locked"
    /\ _ips_m = "free"
    /\ _ips_m' = "scanner"
    /\ UNCHANGED <<connVars, dtorVars, lifeVars>>
    /\ Goto("scanner", "scan_ips_locked")
    /\ UNCHANGED <<addrVars, call, seen, _multicastGroups_m, argIp, base, allIps>>

\* ips() returning with _ips_m still held.
ScanIpsCopyKept ==
    /\ pc["scanner"] = "scan_ips_locked"
    /\ allIps' = _ips
    /\ Goto("scanner", "scan_diff")
    /\ UNCHANGED <<connVars, dtorVars, lifeVars, addrVars, call, seen, _ips_m,
                   _multicastGroups_m, argIp, base>>

\* allIps(ips()): the copy, and the release of _ips_m.
ScanIpsCopy ==
    /\ pc["scanner"] = "scan_ips_locked"
    /\ allIps' = _ips
    /\ _ips_m' = "free"
    /\ UNCHANGED <<connVars, dtorVars, lifeVars>>
    /\ Goto("scanner", "scan_diff")
    /\ UNCHANGED <<addrVars, call, seen, _multicastGroups_m, argIp, base>>

\* The rest of scanMulticastGroups, under _multicastGroups_m alone, and the
\* release of _multicastGroups_m at its return.
ScanDiff ==
    /\ pc["scanner"] = "scan_diff"
    /\ _multicastGroups' = ScanSwap(NewGroups(allIps), _multicastGroups)
    /\ _multicastGroups_m' = "free"
    /\ allIps' = <<>>
    /\ UNCHANGED <<connVars, dtorVars, lifeVars>>
    /\ Goto("scanner", "idle")
    /\ UNCHANGED <<picostack, _ips, cleanScans, call, seen, _ips_m, argIp, base>>

(***************************************************************************)
(* Connections and the socket API, one call at a time.                     *)
(***************************************************************************)
ConnIds == 1..MaxConns

\* Seconds between two sweeps, and seconds a closed Connection is kept.
ZT_HOUSEKEEPING_INTERVAL == 1

ZT_CONNECTION_DELETE_WAIT_TIME == 1

\* The generic failure code of the socket API.
ZT_ERR_GENERAL_FAILURE == -88

\* conn of an id no Connection was created for.
NoConnection ==
    [status |-> "none", socket_type |-> "SOCK_STREAM",
     state |-> "ZT_SOCK_STATE_NONE", sock |-> "null", closure_ts |-> -1]

\* conn of an id whose Connection was deleted.
FreedConnection == [NoConnection EXCEPT !.status = "freed"]

\* The Connection pointers a caller can hold.
Live == {c \in ConnIds : conn[c].status = "live"}

\* What a backend call can return to the socket API.
BackendResults == {-1, 0}

\* call after a socket-API entry point: its name and argument, what it
\* returned, whether it stopped the process instead of returning, whether it
\* called the backend, and the frames it handed to _handler.
ApiCall(op, c, r, stopped, usedBackend, frames) ==
    [op |-> op, conn |-> c, ret |-> r, crashed |-> stopped,
     backend |-> usedBackend, handler |-> frames]

\* A Connection is created and pushed to _Connections, as the socket layer
\* and the backend's accept path do.
NewConnection(type, sock) ==
    /\ ~crashed
    /\ \E c \in ConnIds :
          /\ conn[c].status = "none"
          /\ \A d \in ConnIds : d < c => conn[d].status # "none"
          /\ conn' = [conn EXCEPT ![c] =
                         [status |-> "live", socket_type |-> type,
                          state |-> "ZT_SOCK_STATE_NONE", sock |-> sock,
                          closure_ts |-> -1]]
          /\ _Connections' = Append(_Connections, c)
    /\ call' = [op |-> "NewConnection"]
    /\ UNCHANGED <<addrVars, concVars, lifeVars, dtorVars, now, last_housekeeping_ts,
                   hk_ts_set, crashed, released>>

\* One second passes.
Tick ==
    /\ ~crashed
    /\ now < MaxTime
    /\ now' = now + 1
    /\ call' = [op |-> "Tick"]
    /\ UNCHANGED <<addrVars, concVars, lifeVars, dtorVars, _Connections, conn,
                   last_housekeeping_ts, hk_ts_set, crashed, released>>

\* Connect(conn, fd, addr, addrlen).
Connect(c) ==
    /\ ~crashed
    /\ IF picostack
       THEN \E r \in BackendResults :
               call' = ApiCall("Connect", c, r, FALSE, TRUE, <<>>)
       ELSE call' = ApiCall("Connect", c, ZT_ERR_GENERAL_FAILURE, FALSE, FALSE, <<>>)
    /\ UNCHANGED <<addrVars, concVars, lifeVars, dtorVars, connVars>>

\* Bind(conn, fd, addr, addrlen).
Bind(c) ==
    /\ ~crashed
    /\ IF picostack
       THEN \E r \in BackendResults :
               call' = ApiCall("Bind", c, r, FALSE, TRUE, <<>>)
       ELSE call' = ApiCall("Bind", c, ZT_ERR_GENERAL_FAILURE, FALSE, FALSE, <<>>)
    /\ UNCHANGED <<addrVars, concVars, lifeVars, dtorVars, connVars>>

\* pico_Listen(conn, fd, backlog) returning r: a listen that succeeded leaves
\* the Connection listening.
pico_Listen(cn, c, r) ==
    IF r = 0 THEN [cn EXCEPT ![c].state = "ZT_SOCK_STATE_LISTENING"] ELSE cn

\* Listen(conn, fd, backlog).
Listen(c) ==
    /\ ~crashed
    /\ IF picostack
       THEN \E r \in BackendResults :
               /\ call' = ApiCall("Listen", c, r, FALSE, TRUE, <<>>)
               /\ conn' = pico_Listen(conn, c, r)
       ELSE /\ call' = ApiCall("Listen", c, ZT_ERR_GENERAL_FAILURE, FALSE, FALSE, <<>>)
            /\ UNCHANGED conn
    /\ UNCHANGED <<addrVars, concVars, lifeVars, dtorVars, _Connections, now,
                   last_housekeeping_ts, hk_ts_set, crashed, released>>

\* Accept(conn): the backend answers with a Connection it accepted, or NULL.
Accept(c) ==
    /\ ~crashed
    /\ IF picostack
       THEN \E r \in Live \cup {NULL} :
               call' = ApiCall("Accept", c, r, FALSE, TRUE, <<>>)
       ELSE call' = ApiCall("Accept", c, NULL, FALSE, FALSE, <<>>)
    /\ UNCHANGED <<addrVars, concVars, lifeVars, dtorVars, connVars>>

\* Read(sock, uptr, stack_invoked), uptr being the Connection.
Read(c) ==
    /\ ~crashed
    /\ IF picostack
       THEN \E r \in {-1, 0, 1} :
               call' = ApiCall("Read", c, r, FALSE, TRUE, <<>>)
       ELSE call' = ApiCall("Read", c, -1, FALSE, FALSE, <<>>)
    /\ UNCHANGED <<addrVars, concVars, lifeVars, dtorVars, connVars>>

(***************************************************************************)
(* Write, and the Ethernet frames written to raw Connections.              *)
(***************************************************************************)
\* sizeof(struct ether_header).
EtherHeaderLen == 14

\* Two station addresses, as the six bytes on the wire.
Macs == {<<2, 0, 0, 0, 0, 1>>, <<2, 0, 0, 0, 0, 2>>}

\* IPv4 and ARP.
EtherTypes == {2048, 2054}

\* The payloads written: 0 to MaxPayload bytes, counting up from 1.
Payloads == {[i \in 1..n |-> i] : n \in 0..MaxPayload}

\* A frame as the application hands it to Write: destination, source, the
\* EtherType with its high byte first, the payload.
BuildFrame(dst, src, etherType, payload) ==
    dst \o src \o <<etherType \div 256, etherType % 256>> \o payload

\* eh->ether_type: the two bytes at offset 12 read as one uint16_t of the host.
HostLoad16(littleEndian, first, second) ==
    IF littleEndian THEN first + 256 * second ELSE 256 * first + second

\* The conversion left out.
NtohNone(littleEndian, v) == v

\* Utils::ntoh((uint16_t)v).
Ntoh(littleEndian, v) ==
    IF littleEndian THEN (v % 256) * 256 + (v \div 256) ELSE v

\* MAC::setTo(bits, len): the station address held in the first len bytes.
MacSetTo(bits, len) == SubSeq(bits, 1, len)

\* The arguments Write gives _handler for the frame in data[1..len].
RawDelivery(littleEndian, data, len) ==
    LET ether_dhost == SubSeq(data, 1, 6)
        ether_shost == SubSeq(data, 7, 12)
        ether_type  == HostLoad16(littleEndian, data[13], data[14])
    IN  [from |-> MacSetTo(ether_shost, 6),
         to |-> MacSetTo(ether_dhost, 6),
         etherType |-> Ntoh(littleEndian, ether_type),
         vlanId |-> 0,
         data |-> SubSeq(data, EtherHeaderLen + 1, len),
         len |-> len - EtherHeaderLen]

\* Write(conn, data, len) with the frame built from dst, src, etherType and
\* payload in data, on a host of either byte order.
Write(c, dst, src, etherType, payload) ==
    LET data == BuildFrame(dst, src, etherType, payload)
        len  == Len(data)
        wire == [dst |-> dst, src |-> src, etherType |-> etherType,
                 payload |-> payload]
    IN  /\ ~crashed
        /\ IF conn[c].socket_type = "SOCK_RAW"
           THEN \E littleEndian \in BOOLEAN :
                   call' = ApiCall("Write", c, len, FALSE, FALSE,
                                   <<RawDelivery(littleEndian, data, len)>>)
                           @@ [wire |-> wire]
           ELSE IF picostack
           THEN \E r \in {-1, len} :
                   call' = ApiCall("Write", c, r, FALSE, TRUE, <<>>) @@ [wire |-> wire]
           ELSE call' = ApiCall("Write", c, -1, FALSE, FALSE, <<>>) @@ [wire |-> wire]
        /\ UNCHANGED <<addrVars, concVars, lifeVars, dtorVars, connVars>>

(***************************************************************************)
(* Close.                                                                  *)
(***************************************************************************)
\* pico_Close(conn) at time t: the Connection is marked closed, once.
pico_Close(cn, c, t) ==
    IF cn[c].closure_ts = -1 THEN [cn EXCEPT ![c].closure_ts = t] ELSE cn

\* Close from the test of conn->sock on, cn being the Connections as
\* pico_Close left them.
CloseAfterPico(c, cn) ==
    IF cn[c].sock = "null"
    THEN [ret |-> -1, conn |-> cn, crashed |-> FALSE, backend |-> TRUE]
    ELSE IF cn[c].state = "ZT_SOCK_STATE_LISTENING"
    THEN [ret |-> -1, conn |-> cn, crashed |-> FALSE, backend |-> TRUE]
    ELSE [ret |-> 0, conn |-> [cn EXCEPT ![c].sock = "closed"],
          crashed |-> FALSE, backend |-> TRUE]

\* Close compiled without its body: return 0.
CloseOutcomesNoBody(c) ==
    {[ret |-> 0, conn |-> conn, crashed |-> FALSE, backend |-> FALSE]}

\* The ways Close(conn) can end. picostack->pico_Close(conn) is called without
\* a test of picostack: through a null pointer the call either stops the
\* process or runs pico_Close, which is no virtual function, all the same.
CloseOutcomes(c) ==
    IF c = NULL
    THEN {[ret |-> -1, conn |-> conn, crashed |-> FALSE, backend |-> FALSE]}
    ELSE (IF picostack
          THEN {}
          ELSE {[ret |-> 0, conn |-> conn, crashed |-> TRUE, backend |-> FALSE]})
         \cup {CloseAfterPico(c, pico_Close(conn, c, now))}

\* The loop over _Connections with the erase put back in.
CloseTableErased(c, table) ==
    IF StdFind(table, c) <= Len(table) THEN Erase(table, StdFind(table, c)) ELSE table

\* The loop over _Connections at the end of Close: it looks for conn and
\* breaks where it finds it; its erase and its delete are commented out.
CloseTable(c, table) == table

\* Close(conn). The loop over the table is reached by the calls that return 0.
Close(c) ==
    /\ ~crashed
    /\ \E o \in CloseOutcomes(c) :
          /\ call' = ApiCall("Close", c, o.ret, o.crashed, o.backend, <<>>)
          /\ conn' = o.conn
          /\ crashed' = o.crashed
          /\ _Connections' = IF o.ret = 0 /\ ~o.crashed
                              THEN CloseTable(c, _Connections)
                              ELSE _Connections
    /\ UNCHANGED <<addrVars, concVars, lifeVars, dtorVars, now, last_housekeeping_ts,
                   hk_ts_set, released>>

(***************************************************************************)
(* Housekeeping.                                                           *)
(***************************************************************************)
\* The test without the sentinel.
ShouldReclaimAnyAge(cn, current_ts) ==
    current_ts > cn.closure_ts + ZT_CONNECTION_DELETE_WAIT_TIME

\* The test of the sweep on one Connection.
ShouldReclaim(cn, current_ts) ==
    /\ cn.closure_ts # -1
    /\ current_ts > cn.closure_ts + ZT_CONNECTION_DELETE_WAIT_TIME

\* The sweep from position i on: an erase moves the following elements one
\* position down, and ++i then steps over the first of them.
RECURSIVE Sweep(_, _, _)
Sweep(table, i, current_ts) ==
    IF i > Len(table) THEN table
    ELSE IF ShouldReclaim(conn[table[i]], current_ts)
         THEN Sweep(Erase(table, i), i + 1, current_ts)
         ELSE Sweep(table, i + 1, current_ts)

\* What a read of last_housekeeping_ts can give: the value assigned by the
\* last sweep, or, as the constructor assigns none, any value before the
\* first one: here a time long past, the time of construction, a time ahead.
LastHousekeepingRead ==
    IF hk_ts_set THEN {last_housekeeping_ts} ELSE {-ZT_HOUSEKEEPING_INTERVAL - 1, 0, MaxTime}

\* call after Housekeeping: whether the call went past its time gate.
HousekeepingCall(swept) ==
    ApiCall("Housekeeping", NULL, NULL, FALSE, FALSE, <<>>) @@ [swept |-> swept]

\* Housekeeping().
Housekeeping ==
    /\ ~crashed
    /\ \E last \in LastHousekeepingRead :
          LET current_ts == now
          IN  IF current_ts > last + ZT_HOUSEKEEPING_INTERVAL
              THEN LET kept == Sweep(_Connections, 1, current_ts)
                   IN  /\ _Connections' = kept
                       /\ conn' = [c \in ConnIds |->
                                     IF c \in Range(_Connections) \ Range(kept)
                                     THEN FreedConnection
                                     ELSE conn[c]]
                       /\ released' = [c \in ConnIds |->
                                         IF c \in Range(_Connections) \ Range(kept)
                                         THEN released[c] + 1
                                         ELSE released[c]]
                       /\ last_housekeeping_ts' = now
                       /\ hk_ts_set' = TRUE
                       /\ call' = HousekeepingCall(TRUE)
              ELSE /\ UNCHANGED <<_Connections, conn, last_housekeeping_ts, hk_ts_set,
                                  released>>
                   /\ call' = HousekeepingCall(FALSE)
    /\ UNCHANGED <<addrVars, concVars, lifeVars, dtorVars, now, crashed>>

(***************************************************************************)
(* The background thread and the destructor.                               *)
(***************************************************************************)
\* threadMain(): into pico_loop when there is a backend, else straight out.
ThreadMain ==
    /\ threadPc = "start"
    /\ threadPc' = IF picostack THEN "loop_test" ELSE "exited"
    /\ UNCHANGED <<addrVars, call, concVars, lifeVars, connVars, _run, whackPending,
                   dtorPc, dtorI, midLoop>>

\* pico_loop(tap): the loop runs for as long as the run flag is set.
LoopTest ==
    /\ threadPc = "loop_test"
    /\ threadPc' = IF _run THEN "poll" ELSE "exited"
    /\ UNCHANGED <<addrVars, call, concVars, lifeVars, connVars, _run, whackPending,
                   dtorPc, dtorI, midLoop>>

\* The wait of the loop ends because the device was whacked.
PollWhacked ==
    /\ threadPc = "poll"
    /\ whackPending
    /\ whackPending' = FALSE
    /\ threadPc' = "tick"
    /\ UNCHANGED <<addrVars, call, concVars, lifeVars, connVars, _run, dtorPc, dtorI,
                   midLoop>>

\* The wait of the loop ends on its own: an event, or its timeout.
PollReturns ==
    /\ threadPc = "poll"
    /\ threadPc' = "tick"
    /\ UNCHANGED <<addrVars, call, concVars, lifeVars, connVars, _run, whackPending,
                   dtorPc, dtorI, midLoop>>

\* The backend's timers are driven, and the loop starts over.
StackTick ==
    /\ threadPc = "tick"
    /\ threadPc' = "loop_test"
    /\ UNCHANGED <<addrVars, call, concVars, lifeVars, connVars, _run, whackPending,
                   dtorPc, dtorI, midLoop>>

\* The destructor entered with the run flag left as it is.
DtorClearRunKept ==
    /\ dtorPc = "idle"
    /\ threadPc # "start"
    /\ ~crashed
    /\ dtorPc' = "whack"
    /\ midLoop' = (threadPc \in {"loop_test", "poll", "tick"})
    /\ UNCHANGED <<addrVars, call, concVars, lifeVars, connVars, _run, whackPending,
                   threadPc, dtorI>>

\* ~SocketTap() is called: _run = false.
DtorClearRun ==
    /\ dtorPc = "idle"
    /\ threadPc # "start"
    /\ ~crashed
    /\ _run' = FALSE
    /\ dtorPc' = "whack"
    /\ midLoop' = (threadPc \in {"loop_test", "poll", "tick"})
    /\ UNCHANGED <<addrVars, call, concVars, lifeVars, connVars, whackPending, threadPc,
                   dtorI>>

\* _phy.whack().
DtorWhack ==
    /\ dtorPc = "whack"
    /\ whackPending' = TRUE
    /\ dtorPc' = "join"
    /\ UNCHANGED <<addrVars, call, concVars, lifeVars, connVars, _run, threadPc, dtorI,
                   midLoop>>

\* Thread::join(_thread) returns once threadMain has returned.
DtorJoin ==
    /\ dtorPc = "join"
    /\ threadPc = "exited"
    /\ dtorPc' = "close_listen"
    /\ UNCHANGED <<addrVars, call, concVars, lifeVars, connVars, _run, whackPending,
                   threadPc, dtorI, midLoop>>

\* _phy.close(_unixListenSocket, false), _unixListenSocket being null.
DtorCloseListen ==
    /\ dtorPc = "close_listen"
    /\ dtorPc' = "delete"
    /\ dtorI' = 1
    /\ UNCHANGED <<addrVars, call, concVars, lifeVars, connVars, _run, whackPending,
                   threadPc, midLoop>>

\* for (i...) delete _Connections[i]: one round of the loop, or its end.
DtorDelete ==
    /\ dtorPc = "delete"
    /\ IF dtorI <= Len(_Connections)
       THEN /\ conn' = [conn EXCEPT ![_Connections[dtorI]] = FreedConnection]
            /\ released' = [released EXCEPT ![_Connections[dtorI]] = @ + 1]
            /\ dtorI' = dtorI + 1
            /\ UNCHANGED dtorPc
       ELSE /\ dtorPc' = "done"
            /\ UNCHANGED <<conn, dtorI, released>>
    /\ UNCHANGED <<addrVars, call, concVars, lifeVars, _Connections, now,
                   last_housekeeping_ts, hk_ts_set, crashed, _run, whackPending,
                   threadPc, midLoop>>

(***************************************************************************)
(* The construction of devices: the static counter devno and the name.     *)
(***************************************************************************)
\* The threads that construct devices.
Creators == {"creator1", "creator2"}

\* The threads that call the socket API and Housekeeping of one device.
ApiThreads == {"caller1", "caller2"}

CtorGoto(t, label) == ctorPc' = [ctorPc EXCEPT ![t] = label]

\* new SocketTap(...) is called by thread t; the initialiser list touches
\* nothing that is shared.
CtorCall(t) ==
    /\ ctorPc[t] = "idle"
    /\ Len(taps) + Cardinality({u \in Creators : ctorPc[u] # "idle"}) < MaxTaps
    /\ CtorGoto(t, "ifindex")
    /\ UNCHANGED <<addrVars, call, concVars, connVars, dtorVars, lockVars, devno,
                   taps, ctorIfindex, ctorTmp>>

\* ifindex = devno.
CtorIfindex(t) ==
    /\ ctorPc[t] = "ifindex"
    /\ ctorIfindex' = [ctorIfindex EXCEPT ![t] = devno]
    /\ CtorGoto(t, "name")
    /\ UNCHANGED <<addrVars, call, concVars, connVars, dtorVars, lockVars, devno,
                   taps, ctorTmp>>

\* sprintf(tmp3, "libzt%d", devno++): the read of devno.
CtorReadDevno(t) ==
    /\ ctorPc[t] = "name"
    /\ ctorTmp' = [ctorTmp EXCEPT ![t] = devno]
    /\ CtorGoto(t, "increment")
    /\ UNCHANGED <<addrVars, call, concVars, connVars, dtorVars, lockVars, devno,
                   taps, ctorIfindex>>

\* What devno++ stores, given the value it read.
PostIncrement(v) == v + 1

\* devno++: the store; _dev = tmp3, and the constructor returns.
CtorIncrement(t) ==
    /\ ctorPc[t] = "increment"
    /\ devno' = PostIncrement(ctorTmp[t])
    /\ taps' = Append(taps, [ifindex |-> ctorIfindex[t], dev |-> ctorTmp[t],
                             alive |-> TRUE])
    /\ ctorIfindex' = [ctorIfindex EXCEPT ![t] = 0]
    /\ ctorTmp' = [ctorTmp EXCEPT ![t] = 0]
    /\ CtorGoto(t, "idle")
    /\ UNCHANGED <<addrVars, call, concVars, connVars, dtorVars, lockVars>>

\* delete tap: the destructor reads and writes neither devno nor a name.
DestroyTap(i) ==
    /\ i \in 1..Len(taps)
    /\ taps[i].alive
    /\ taps' = [taps EXCEPT ![i].alive = FALSE]
    /\ UNCHANGED <<addrVars, call, concVars, connVars, dtorVars, lockVars, devno,
                   ctorPc, ctorIfindex, ctorTmp>>

(***************************************************************************)
(* The socket API and Housekeeping called from two threads, one step per   *)
(* lock operation and per delegated call.                                  *)
(***************************************************************************)
\* The entry points whose first statement is Mutex::Lock _l(_tcpconns_m).
LockingApi == {"Connect", "Bind", "Listen", "Accept"}

\* The entry points that take no lock: Read, and Write and Close as
\* phyOnUnixWritable, phyOnUnixData and phyOnUnixClose call them.
UnlockedApi == {"Read", "Write", "Close"}

\* Where a thread inside Housekeeping can stand.
HousekeepingPcs == {"hk_gate", "hk_loop", "hk_delete", "hk_erase"}

\* Thread t leaves its entry point: the Mutex::Lock of its scope, if it has
\* one, gives _tcpconns_m back.
ApiLeave(t) ==
    /\ apiPc' = [apiPc EXCEPT ![t] = "idle"]
    /\ apiConn' = [apiConn EXCEPT ![t] = NULL]
    /\ _tcpconns_m' = IF _tcpconns_m = t THEN "free" ELSE _tcpconns_m

\* Connect, Bind, Listen or Accept is called on c: Mutex::Lock _l(_tcpconns_m).
ApiLock(t, op, c) ==
    /\ ~crashed
    /\ dtorPc = "idle"
    /\ apiPc[t] = "idle"
    /\ _tcpconns_m = "free"
    /\ _tcpconns_m' = t
    /\ apiPc' = [apiPc EXCEPT ![t] = op]
    /\ apiConn' = [apiConn EXCEPT ![t] = c]
    /\ UNCHANGED <<addrVars, call, concVars, connVars, dtorVars, createVars, hkI, hkTs>>

\* Read, Write or Close is called on c: the body is entered at once.
ApiCallUnlocked(t, op, c) ==
    /\ ~crashed
    /\ dtorPc = "idle"
    /\ apiPc[t] = "idle"
    /\ apiPc' = [apiPc EXCEPT ![t] = op]
    /\ apiConn' = [apiConn EXCEPT ![t] = c]
    /\ UNCHANGED <<addrVars, call, concVars, connVars, dtorVars, createVars,
                   _tcpconns_m, hkI, hkTs>>

\* What a call that uses a Connection deleted under it can do to the
\* process: stop it, or not.
UseAfterFree(c) == IF conn[c].status = "freed" THEN BOOLEAN ELSE {FALSE}

\* The delegated call of Connect, Bind, Accept, Read or Write returns, and the
\* entry point with it.
ApiBackendReturn(t) ==
    /\ ~crashed
    /\ apiPc[t] \in {"Connect", "Bind", "Accept", "Read", "Write"}
    /\ crashed' \in UseAfterFree(apiConn[t])
    /\ ApiLeave(t)
    /\ UNCHANGED <<addrVars, call, concVars, dtorVars, createVars, _Connections, conn,
                   now, last_housekeeping_ts, hk_ts_set, released, hkI, hkTs>>

\* pico_Listen returns, and Listen with it.
ListenReturn(t) ==
    /\ ~crashed
    /\ apiPc[t] = "Listen"
    /\ IF conn[apiConn[t]].status = "freed"
       THEN /\ crashed' \in UseAfterFree(apiConn[t])
            /\ UNCHANGED conn
       ELSE /\ \E r \in (IF picostack THEN BackendResults ELSE {ZT_ERR_GENERAL_FAILURE}) :
                  conn' = pico_Listen(conn, apiConn[t], r)
            /\ UNCHANGED crashed
    /\ ApiLeave(t)
    /\ UNCHANGED <<addrVars, call, concVars, dtorVars, createVars, _Connections, now,
                   last_housekeeping_ts, hk_ts_set, released, hkI, hkTs>>

\* The body of Close runs and Close returns.
CloseReturn(t) ==
    /\ ~crashed
    /\ apiPc[t] = "Close"
    /\ IF conn[apiConn[t]].status = "freed"
       THEN /\ crashed' \in UseAfterFree(apiConn[t])
            /\ UNCHANGED <<conn, _Connections>>
       ELSE \E o \in CloseOutcomes(apiConn[t]) :
               /\ conn' = o.conn
               /\ crashed' = o.crashed
               /\ _Connections' = IF o.ret = 0 /\ ~o.crashed
                                   THEN CloseTable(apiConn[t], _Connections)
                                   ELSE _Connections
    /\ ApiLeave(t)
    /\ UNCHANGED <<addrVars, call, concVars, dtorVars, createVars, now,
                   last_housekeeping_ts, hk_ts_set, released, hkI, hkTs>>

\* Housekeeping is called: Mutex::Lock _l(_tcpconns_m).
HkLock(t) ==
    /\ ~crashed
    /\ dtorPc = "idle"
    /\ apiPc[t] = "idle"
    /\ _tcpconns_m = "free"
    /\ _tcpconns_m' = t
    /\ apiPc' = [apiPc EXCEPT ![t] = "hk_gate"]
    /\ UNCHANGED <<addrVars, call, concVars, connVars, dtorVars, createVars, apiConn,
                   hkI, hkTs>>

\* current_ts = std::time(nullptr), and the test of the gate.
HkGate(t) ==
    /\ ~crashed
    /\ apiPc[t] = "hk_gate"
    /\ \E last \in LastHousekeepingRead :
          IF now > last + ZT_HOUSEKEEPING_INTERVAL
          THEN /\ hkTs' = now
               /\ hkI' = 1
               /\ apiPc' = [apiPc EXCEPT ![t] = "hk_loop"]
               /\ UNCHANGED <<_tcpconns_m, apiConn>>
          ELSE /\ ApiLeave(t)
               /\ UNCHANGED <<hkI, hkTs>>
    /\ UNCHANGED <<addrVars, call, concVars, connVars, dtorVars, createVars>>

\* What the test of the sweep can give for Connection c: the test itself, or
\* anything when the object has been deleted.
SweepTest(c, current_ts) ==
    IF conn[c].status = "freed" THEN BOOLEAN ELSE {ShouldReclaim(conn[c], current_ts)}

\* i < _Connections.size() and the test of _Connections[i]; after the loop,
\* last_housekeeping_ts = std::time(nullptr) and the return.
HkLoop(t) ==
    /\ ~crashed
    /\ apiPc[t] = "hk_loop"
    /\ IF hkI <= Len(_Connections)
       THEN /\ \E reclaim \in SweepTest(_Connections[hkI], hkTs) :
                  IF reclaim
                  THEN /\ apiPc' = [apiPc EXCEPT ![t] = "hk_delete"]
                       /\ apiConn' = [apiConn EXCEPT ![t] = _Connections[hkI]]
                       /\ UNCHANGED hkI
                  ELSE /\ hkI' = hkI + 1
                       /\ UNCHANGED <<apiPc, apiConn>>
            /\ UNCHANGED <<_tcpconns_m, hkTs, last_housekeeping_ts, hk_ts_set>>
       ELSE /\ last_housekeeping_ts' = now
            /\ hk_ts_set' = TRUE
            /\ hkI' = 0
            /\ hkTs' = 0
            /\ ApiLeave(t)
    /\ UNCHANGED <<addrVars, call, concVars, dtorVars, createVars, _Connections, conn,
                   now, crashed, released>>

\* delete _Connections[i].
HkDelete(t) ==
    /\ ~crashed
    /\ apiPc[t] = "hk_delete"
    /\ conn' = [conn EXCEPT ![apiConn[t]] = FreedConnection]
    /\ released' = [released EXCEPT ![apiConn[t]] = @ + 1]
    /\ apiPc' = [apiPc EXCEPT ![t] = "hk_erase"]
    /\ UNCHANGED <<addrVars, call, concVars, dtorVars, createVars, _Connections, now,
                   last_housekeeping_ts, hk_ts_set, crashed, _tcpconns_m, apiConn,
                   hkI, hkTs>>

\* _Connections.erase(_Connections.begin() + i), and the ++i of the loop.
HkErase(t) ==
    /\ ~crashed
    /\ apiPc[t] = "hk_erase"
    /\ _Connections' = Erase(_Connections, hkI)
    /\ hkI' = hkI + 1
    /\ apiPc' = [apiPc EXCEPT ![t] = "hk_loop"]
    /\ apiConn' = [apiConn EXCEPT ![t] = NULL]
    /\ UNCHANGED <<addrVars, call, concVars, dtorVars, createVars, conn, now,
                   last_housekeeping_ts, hk_ts_set, crashed, released, _tcpconns_m,
                   hkTs>>

(***************************************************************************)
(* The device right after construction, and the specifications: each runs  *)
(* one group of operations from that state.                                *)
(***************************************************************************)
Init ==
    /\ picostack \in BOOLEAN
    /\ _ips = <<>>
    /\ _multicastGroups = <<>>
    /\ cleanScans = 0
    /\ call = NoCall
    /\ pc = [t \in Callers |-> "idle"]
    /\ _ips_m = "free"
    /\ _multicastGroups_m = "free"
    /\ argIp = NULL
    /\ base = <<>>
    /\ allIps = <<>>
    /\ seen = [ret |-> <<>>, before |-> <<>>, after |-> <<>>]
    /\ _Connections = <<>>
    /\ conn = [c \in ConnIds |-> NoConnection]
    /\ now = 0
    /\ last_housekeeping_ts = 0
    /\ hk_ts_set = FALSE
    /\ crashed = FALSE
    /\ _run = TRUE
    /\ whackPending = FALSE
    /\ threadPc = "start"
    /\ dtorPc = "idle"
    /\ dtorI = 0
    /\ midLoop = FALSE
    /\ released = [c \in ConnIds |-> 0]
    /\ devno = 0
    /\ taps = <<>>
    /\ ctorPc = [t \in Creators |-> "idle"]
    /\ ctorIfindex = [t \in Creators |-> 0]
    /\ ctorTmp = [t \in Creators |-> 0]
    /\ _tcpconns_m = "free"
    /\ apiPc = [t \in ApiThreads |-> "idle"]
    /\ apiConn = [t \in ApiThreads |-> NULL]
    /\ hkI = 0
    /\ hkTs = 0

Next ==
    \/ \E ip \in Addrs : addIp(ip)
    \/ \E ip \in Addrs : removeIp(ip)
    \/ ips
    \/ scanMulticastGroups

Spec == Init /\ [][Next]_vars

NextConc ==
    \/ \E ip \in 1..NumConcAddrs : AddIpCall(ip)
    \/ AddIpRegister
    \/ AddIpPushBack
    \/ AddIpSort
    \/ \E ip \in 1..NumConcAddrs : RemoveIpLock(ip)
    \/ RemoveIpBody
    \/ IpsLock
    \/ IpsCopy
    \/ ScanLock
    \/ ScanIpsLock
    \/ ScanIpsCopy
    \/ ScanDiff

SpecConc == Init /\ [][NextConc]_vars

\* Devices constructed by two threads, and destroyed, in one process.
NextCreate ==
    \/ \E t \in Creators : CtorCall(t)
    \/ \E t \in Creators : CtorIfindex(t)
    \/ \E t \in Creators : CtorReadDevno(t)
    \/ \E t \in Creators : CtorIncrement(t)
    \/ \E i \in 1..MaxTaps : DestroyTap(i)

SpecCreate == Init /\ [][NextCreate]_vars

\* The socket API on the Connections created, at one moment of the clock.
NextApi ==
    \/ /\ Len(_Connections) < MaxApiConns
       /\ \E type \in {"SOCK_STREAM", "SOCK_RAW"}, sock \in {"null", "open"} :
             NewConnection(type, sock)
    \/ \E c \in Live \cup {NULL} : Connect(c)
    \/ \E c \in Live \cup {NULL} : Bind(c)
    \/ \E c \in Live : Listen(c)
    \/ \E c \in Live \cup {NULL} : Accept(c)
    \/ \E c \in Live : Read(c)
    \/ \E c \in Live, dst \in Macs, src \in Macs, etherType \in EtherTypes,
          payload \in Payloads : Write(c, dst, src, etherType, payload)
    \/ \E c \in Live \cup {NULL} : Close(c)

SpecApi == Init /\ [][NextApi]_vars

\* Connections created, closed and swept as the clock advances.
NextHk ==
    \/ NewConnection("SOCK_STREAM", "open")
    \/ Tick
    \/ \E c \in Live : Close(c)
    \/ Housekeeping

SpecHk == Init /\ [][NextHk]_vars

\* Close on Connections of every kind and state, with the sweeps in between.
NextTable ==
    \/ /\ Len(_Connections) < MaxApiConns
       /\ \E sock \in {"null", "open"} : NewConnection("SOCK_STREAM", sock)
    \/ Tick
    \/ \E c \in Live : Listen(c)
    \/ \E c \in Live \cup {NULL} : Close(c)
    \/ Housekeeping

SpecTable == Init /\ [][NextTable]_vars

\* The socket API and Housekeeping called from two threads at once.
NextLock ==
    \/ NewConnection("SOCK_STREAM", "open")
    \/ Tick
    \/ \E t \in ApiThreads, op \in LockingApi, c \in Live : ApiLock(t, op, c)
    \/ \E t \in ApiThreads, op \in UnlockedApi, c \in Live : ApiCallUnlocked(t, op, c)
    \/ \E t \in ApiThreads : ApiBackendReturn(t)
    \/ \E t \in ApiThreads : ListenReturn(t)
    \/ \E t \in ApiThreads : CloseReturn(t)
    \/ \E t \in ApiThreads : HkLock(t)
    \/ \E t \in ApiThreads : HkGate(t)
    \/ \E t \in ApiThreads : HkLoop(t)
    \/ \E t \in ApiThreads : HkDelete(t)
    \/ \E t \in ApiThreads : HkErase(t)

SpecLock == Init /\ [][NextLock]_vars

\* removeIp, ips and scanMulticastGroups called by their three threads while
\* a fourth thread calls the socket API and a fifth Housekeeping.
NextDeadlock ==
    \/ \E ip \in 1..NumConcAddrs : RemoveIpLock(ip)
    \/ RemoveIpBody
    \/ IpsLock
    \/ IpsCopy
    \/ ScanLock
    \/ ScanIpsLock
    \/ ScanIpsCopy
    \/ ScanDiff
    \/ (Len(_Connections) < MaxApiConns /\ NewConnection("SOCK_STREAM", "open"))
    \/ Tick
    \/ \E op \in LockingApi, c \in Live : ApiLock("caller1", op, c)
    \/ \E op \in UnlockedApi, c \in Live : ApiCallUnlocked("caller1", op, c)
    \/ ApiBackendReturn("caller1")
    \/ ListenReturn("caller1")
    \/ CloseReturn("caller1")
    \/ HkLock("caller2")
    \/ HkGate("caller2")
    \/ HkLoop("caller2")
    \/ HkDelete("caller2")
    \/ HkErase("caller2")

\* A thread that runs keeps running, and a thread that waits for a mutex
\* gets it if the mutex is free again and again.
SpecDeadlock ==
    /\ Init
    /\ [][NextDeadlock]_vars
    /\ WF_vars(RemoveIpBody)
    /\ WF_vars(IpsCopy)
    /\ SF_vars(ScanIpsLock)
    /\ WF_vars(ScanIpsCopy)
    /\ WF_vars(ScanDiff)
    /\ WF_vars(ApiBackendReturn("caller1"))
    /\ WF_vars(ListenReturn("caller1"))
    /\ WF_vars(CloseReturn("caller1"))
    /\ WF_vars(HkGate("caller2"))
    /\ WF_vars(HkLoop("caller2"))
    /\ WF_vars(HkDelete("caller2"))
    /\ WF_vars(HkErase("caller2"))

\* The device destroyed while one thread is inside the socket API and another
\* inside Housekeeping; no call begins once ~SocketTap has been called.
NextTeardown ==
    \/ (dtorPc = "idle" /\ NewConnection("SOCK_STREAM", "open"))
    \/ (dtorPc = "idle" /\ Tick)
    \/ \E op \in LockingApi, c \in Live : ApiLock("caller1", op, c)
    \/ \E c \in Live : ApiCallUnlocked("caller1", "Close", c)
    \/ ApiBackendReturn("caller1")
    \/ ListenReturn("caller1")
    \/ CloseReturn("caller1")
    \/ HkLock("caller2")
    \/ HkGate("caller2")
    \/ HkLoop("caller2")
    \/ HkDelete("caller2")
    \/ HkErase("caller2")
    \/ ThreadMain
    \/ LoopTest
    \/ PollWhacked
    \/ PollReturns
    \/ StackTick
    \/ DtorClearRun
    \/ DtorWhack
    \/ DtorJoin
    \/ DtorCloseListen
    \/ DtorDelete

SpecTeardown == Init /\ [][NextTeardown]_vars

\* The background thread, the use of the device while it lives, and its
\* destruction. Both threads keep running; the wait of the loop is only sure
\* to end when the device is whacked.
NextDtor ==
    \/ ThreadMain
    \/ LoopTest
    \/ PollWhacked
    \/ PollReturns
    \/ StackTick
    \/ (dtorPc = "idle" /\ NewConnection("SOCK_STREAM", "open"))
    \/ (dtorPc = "idle" /\ \E c \in Live : Close(c))
    \/ DtorClearRun
    \/ DtorWhack
    \/ DtorJoin
    \/ DtorCloseListen
    \/ DtorDelete

SpecDtor ==
    /\ Init
    /\ [][NextDtor]_vars
    /\ WF_vars(ThreadMain)
    /\ WF_vars(LoopTest)
    /\ WF_vars(PollWhacked)
    /\ WF_vars(StackTick)
    /\ WF_vars(DtorWhack)
    /\ WF_vars(DtorJoin)
    /\ WF_vars(DtorCloseListen)
    /\ WF_vars(DtorDelete)

(***************************************************************************)
(* Claims about the address list and the multicast-group scan.             *)
(***************************************************************************)
\* The groups derived from the addresses of a snapshot, as a set.
GroupsOf(snapshot) == {DeriveGroup(snapshot[i]) : i \in 1..Len(snapshot)}

\* C1: after every addIp and removeIp call the address list is sorted and
\* holds no address twice, also when one address is added more than once.
C1_SortedDuplicateFree == IsSorted(_ips) /\ NoDuplicates(_ips)

\* C2: an addIp whose backend registration (pico_init_interface) failed
\* returns false and leaves the address list as it was; addIp returns true
\* and inserts only when the registration succeeded.
C2_FailedRegistrationKeepsSet ==
    call.op = "addIp" =>
        /\ (~call.initOk => call.ret = FALSE /\ _ips = call.ips)
        /\ (call.ret = TRUE => call.initOk)

\* C3: with addIp and scanMulticastGroups running concurrently, every address
\* list a third caller gets from ips() is the list before or after a whole
\* addIp, never the appended and not yet sorted one.
C3_NoTornRead == seen.ret \in {seen.before, seen.after}

\* C4: scanMulticastGroups reports as added the groups of the current
\* addresses that were not tracked, and as removed the tracked groups that no
\* current address derives.
C4_ScanDiff ==
    call.op = "scanMulticastGroups" =>
        /\ Range(call.added) = GroupsOf(call.ips) \ Range(call.groups)
        /\ Range(call.removed) = Range(call.groups) \ GroupsOf(call.ips)

\* A scan over overlapping address sets in which two different addresses
\* derive one group, and which both adds and removes a group.
C4_Witness ==
    /\ call.op = "scanMulticastGroups"
    /\ call.added # <<>>
    /\ call.removed # <<>>
    /\ Range(call.groups) \cap GroupsOf(call.ips) # {}
    /\ \E i, j \in 1..Len(call.ips) :
          call.ips[i] # call.ips[j] /\ DeriveGroup(call.ips[i]) = DeriveGroup(call.ips[j])

\* C5: a scanMulticastGroups call that follows another one with no change of
\* the address list in between reports nothing added and nothing removed.
C5_ScanIdempotent ==
    (call.op = "scanMulticastGroups" /\ cleanScans = 2) =>
        call.added = <<>> /\ call.removed = <<>>

\* A repeated scan over a tracked vector that std::unique left unsorted.
C5_Witness ==
    /\ call.op = "scanMulticastGroups"
    /\ cleanScans = 2
    /\ ~IsSorted(_multicastGroups)

\* C13: removeIp(ip) returns false and leaves the address list as it was
\* when ip is not in it; when ip is in it, removeIp returns true and the list
\* afterwards holds every other address and no longer holds ip.
C13_RemoveIp ==
    call.op = "removeIp" =>
        IF call.ip \in Range(call.ips)
        THEN /\ call.ret = TRUE
             /\ Range(_ips) = Range(call.ips) \ {call.ip}
        ELSE /\ call.ret = FALSE
             /\ _ips = call.ips

\* C19: after every scanMulticastGroups call the tracked vector is sorted,
\* holds no group twice and holds exactly the groups derived from the
\* addresses the call read.
C19_TrackedSortedDuplicateFree ==
    call.op = "scanMulticastGroups" =>
        /\ IsSorted(_multicastGroups)
        /\ NoDuplicates(_multicastGroups)
        /\ Range(_multicastGroups) = GroupsOf(call.ips)

(***************************************************************************)
(* Claims about Housekeeping and the socket API.                           *)
(***************************************************************************)
\* The entry points of the socket API.
SocketApi == {"Connect", "Bind", "Listen", "Accept", "Read", "Write", "Close"}

\* The device state an API call can touch, connections and addresses alike.
deviceState ==
    <<_Connections, conn, last_housekeeping_ts, hk_ts_set, _ips, _multicastGroups>>

\* C6: no step removes from the table a Connection whose closure_ts is -1, nor
\* a closed one unless the time is past its closure_ts plus
\* ZT_CONNECTION_DELETE_WAIT_TIME.
C6_ReclaimOnlyExpired ==
    [][\A c \in Range(_Connections) \ Range(_Connections') :
          /\ conn[c].closure_ts # -1
          /\ now > conn[c].closure_ts + ZT_CONNECTION_DELETE_WAIT_TIME]_vars

\* A sweep has deleted a Connection and left in the table one that is open
\* or not yet past its grace period.
C6_Witness ==
    /\ call.op = "Housekeeping"
    /\ \E c \in ConnIds : conn[c].status = "freed"
    /\ \E c \in Range(_Connections) :
          \/ conn[c].closure_ts = -1
          \/ now <= conn[c].closure_ts + ZT_CONNECTION_DELETE_WAIT_TIME

\* C8: Close(NULL) returns a failure value, calls no backend and changes
\* neither the table nor anything else of the device.
C8_CloseNull ==
    [][(call'.op = "Close" /\ call'.conn = NULL) =>
          /\ call'.ret < 0
          /\ ~call'.crashed
          /\ ~call'.backend
          /\ call'.handler = <<>>
          /\ UNCHANGED deviceState]_vars

\* Close(NULL) has returned on a device with a backend and a Connection.
C8_Witness ==
    /\ call.op = "Close"
    /\ call.conn = NULL
    /\ picostack
    /\ _Connections # <<>>

\* C9: a Write on a SOCK_RAW Connection calls _handler exactly once, with the
\* source, the destination and the EtherType (in host order) of the header,
\* the bytes behind the header and their number, and calls no backend.
C9_RawWrite ==
    (call.op = "Write" /\ conn[call.conn].socket_type = "SOCK_RAW") =>
        /\ Len(call.handler) = 1
        /\ call.handler[1].from = call.wire.src
        /\ call.handler[1].to = call.wire.dst
        /\ call.handler[1].etherType = call.wire.etherType
        /\ call.handler[1].data = call.wire.payload
        /\ call.handler[1].len = Len(call.wire.payload)
        /\ ~call.backend

\* A raw Write of a frame with a payload, from one station to another, on a
\* device with a backend.
C9_Witness ==
    /\ call.op = "Write"
    /\ conn[call.conn].socket_type = "SOCK_RAW"
    /\ call.wire.payload # <<>>
    /\ call.wire.src # call.wire.dst
    /\ picostack

\* C10: with no backend, every socket-API call but a raw Write returns a
\* negative value (NULL from Accept) and changes no device state.
C10_NoBackendFails ==
    [][(/\ ~picostack
        /\ call'.op \in SocketApi
        /\ ~(call'.op = "Write" /\ conn[call'.conn].socket_type = "SOCK_RAW")) =>
          /\ ~call'.crashed
          /\ IF call'.op = "Accept" THEN call'.ret = NULL ELSE call'.ret < 0
          /\ UNCHANGED deviceState]_vars

C16_SweepComplete ==
    (call.op = "Housekeeping" /\ call.swept) =>
        \A c \in Range(_Connections) : ~ShouldReclaim(conn[c], now)

\* C17: Close on a LISTENING Connection with a socket calls the backend's
\* close, leaves the Connection's socket alone and returns no failure value.
C17_CloseListening ==
    (/\ call.op = "Close"
     /\ call.conn # NULL
     /\ ~call.crashed
     /\ conn[call.conn].state = "ZT_SOCK_STATE_LISTENING"
     /\ conn[call.conn].sock # "null") =>
        /\ call.backend
        /\ conn[call.conn].sock = "open"
        /\ call.ret >= 0

\* The entry points the table lock is to keep apart, as the places a thread
\* can stand inside them.
GuardedBodies ==
    {"Connect", "Bind", "Listen", "Accept", "Write", "Close"} \cup HousekeepingPcs

\* C11: a thread inside Connect, Bind, Listen, Accept, Write, Close or
\* Housekeeping holds _tcpconns_m, so no two threads are inside these entry
\* points at the same time; Read alone runs without the lock.
C11_TableLockHeld ==
    /\ \A t \in ApiThreads : apiPc[t] \in GuardedBodies => _tcpconns_m = t
    /\ \A t, u \in ApiThreads :
          t # u => ~(apiPc[t] \in GuardedBodies /\ apiPc[u] \in GuardedBodies)
    /\ \A t \in ApiThreads : apiPc[t] = "Read" => _tcpconns_m # t

\* The order of the locks: a thread that holds _ips_m inside
\* scanMulticastGroups took _multicastGroups_m before, the threads of removeIp
\* and ips hold _ips_m alone, and the threads of the socket API and of
\* Housekeeping hold _tcpconns_m alone.
LockOrder ==
    /\ _ips_m = "scanner" => _multicastGroups_m = "scanner"
    /\ _multicastGroups_m \in {"free", "scanner"}
    /\ _ips_m \in {"free", "scanner", "adder", "reader"}
    /\ _tcpconns_m \in {"free"} \cup ApiThreads

\* C20: removeIp, ips, scanMulticastGroups, the socket API and Housekeeping,
\* interleaved in any way, keep the order of the locks, and every lock that
\* is taken is given back, unless the process stops.
C20_NoDeadlock ==
    /\ []LockOrder
    /\ (_ips_m # "free") ~> (_ips_m = "free" \/ crashed)
    /\ (_multicastGroups_m # "free") ~> (_multicastGroups_m = "free" \/ crashed)
    /\ (_tcpconns_m # "free") ~> (_tcpconns_m = "free" \/ crashed)

\* scanMulticastGroups waits for _ips_m, which another thread holds, while a
\* thread in Housekeeping holds _tcpconns_m and a third is inside Close.
C20_Witness ==
    /\ pc["scanner"] = "scan_locked"
    /\ _multicastGroups_m = "scanner"
    /\ _ips_m \in {"adder", "reader"}
    /\ _tcpconns_m = "caller2"
    /\ apiPc["caller2"] \in HousekeepingPcs
    /\ apiPc["caller1"] = "Close"

(***************************************************************************)
(* Claims about the construction of devices.                               *)
(***************************************************************************)
\* C14: the devices constructed in the process, alive or destroyed, have
\* different indices and different names, and once no constructor is under
\* way the counter has grown by one for each of them, also when two threads
\* construct devices at once.
C14_UniqueDeviceIndex ==
    /\ \A i, j \in 1..Len(taps) :
          i # j => taps[i].ifindex # taps[j].ifindex /\ taps[i].dev # taps[j].dev
    /\ (\A t \in Creators : ctorPc[t] = "idle") => devno = Len(taps)

(***************************************************************************)
(* Claims about the teardown.                                              *)
(***************************************************************************)
\* Thread t is inside Connect, Bind, Listen, Accept or Close called on
\* Connection c, or inside Housekeeping at the test, the delete or the erase
\* of c.
InFlightOn(t, c) ==
    \/ apiPc[t] \in {"Connect", "Bind", "Listen", "Accept", "Close"} /\ apiConn[t] = c
    \/ apiPc[t] \in {"hk_delete", "hk_erase"} /\ apiConn[t] = c
    \/ apiPc[t] = "hk_loop" /\ hkI <= Len(_Connections) /\ _Connections[hkI] = c

\* C12: when the destructor deletes a Connection, no thread is inside
\* Connect, Bind, Listen, Accept, Close or Housekeeping on that Connection.
C12_DestructionExcludesCalls ==
    [][(dtorPc = "delete" /\ dtorI' = dtorI + 1) =>
          \A t \in ApiThreads : ~InFlightOn(t, _Connections[dtorI])]_vars

\* C18: no Connection object is deleted twice, by two sweeps or by a sweep
\* and the destructor, and once the destructor has returned and no call is
\* under way every Connection created has been deleted once.
C18_ReleasedOnce ==
    /\ \A c \in ConnIds : released[c] <= 1
    /\ (dtorPc = "done" /\ ~crashed /\ \A t \in ApiThreads : apiPc[t] = "idle") =>
          \A c \in ConnIds : conn[c].status # "none" => released[c] = 1

\* C7: a destruction begun while the background thread is inside the run
\* loop completes: the thread is woken and joined and the destructor returns,
\* with the run flag false.
C7_DestructionCompletes ==
    (dtorPc # "idle" /\ midLoop) ~> (dtorPc = "done" /\ threadPc = "exited" /\ ~_run)

\* The destructor has returned after it found the thread inside the loop and
\* Connections in the table.
C7_Witness ==
    /\ dtorPc = "done"
    /\ midLoop
    /\ threadPc = "exited"
    /\ ~_run
    /\ _Connections # <<>>

====
